---- MODULE Spec2Model ----
(***************************************************************************)
(* rumpus_cli: the `simulate` subcommand (src/src/simulate.rs).            *)
(*                                                                         *)
(* Three specifications share the module:                                  *)
(*   Spec      one whole run of `run`: parameters, simulate (sensor        *)
(*             coordinates, geodetic validation, the parallel per-pixel    *)
(*             trace, assembly), output dispatch and the two encoders;     *)
(*   ColorSpec the pure colormap `to_rgb` applied to drawn inputs;         *)
(*   DatSpec   the flat index `row * cols + col` of `write_dat`, computed  *)
(*             in u16 as the code computes it, at real sensor sizes.       *)
(*                                                                         *)
(* Numbers: an angle of polarisation is its value in degrees as returned   *)
(* by `get::<degree>()`, drawn from integral samples; a latitude is held   *)
(* in units of 1e-4 degree so that the default 44.2187 is exact.  On the   *)
(* integral inputs used here floor((x - x_min) / width * 255.) in f64      *)
(* equals the exact integer quotient ((x - x_min) * 255) \div width.       *)
(***************************************************************************)
EXTENDS Integers, Sequences, FiniteSets, TLC

VARIABLES
    pc,            \* position of the run: see RunPcs
    cfg,           \* the --params argument and what the file holds
    params,        \* Option<Params>: None before they are loaded
    err,           \* how the run ended when it did not succeed, "" otherwise
    cfgReads,      \* number of times the configuration file was opened
    atPixelCalls,  \* number of ImageSensor::at_pixel calls made so far
    coords,        \* Vec<Coordinate<CameraFrd>> built by simulate
    task,          \* per item of coords: <<"pending">>, <<"panic">>,
                   \* <<"none">> or <<"aop", a>>
    rays,          \* the Vec<Ray> collected so far, in completion order
    rayImage,      \* Option<RayImage>: the row-major cells once assembled
    format,        \* the --format argument, "unread" until the dispatch
    output,        \* the --output path, <<>> until the dispatch
    encoder,       \* which encoder the dispatch invoked
    file,          \* Option: what the output file holds once it exists
    creates,       \* number of times the output file was created
    colorIn,       \* ColorSpec: <<x, x_min, x_max>>
    colorOut,      \* ColorSpec: Some(result of to_rgb) after the call
    datIn,         \* DatSpec: <<rows, cols>>
    datProbe       \* DatSpec: Some of the iteration probed and its index

runVars == <<pc, cfg, params, err, cfgReads, atPixelCalls, coords, task, rays,
             rayImage, format, output, encoder, file, creates>>
colorVars == <<colorIn, colorOut>>
datVars == <<datIn, datProbe>>
vars == <<runVars, colorVars, datVars>>

\* Option<T> is a sequence of at most one element: <<>> or <<v>>.
None == <<>>
Some(v) == <<v>>
IsSome(o) == Len(o) = 1

(***************************************************************************)
(* Bounds of the model.                                                    *)
(***************************************************************************)
\* Largest sensor (rows * cols) whose run is explored pixel by pixel.
MaxPixels == 4

(***************************************************************************)
(* u8 / u16 arithmetic                                                     *)
(***************************************************************************)
U8Max == 255
U16Modulus == 65536

Min2(a, b) == IF a <= b THEN a ELSE b
Min3(a, b, c) == Min2(a, Min2(b, c))

\* x.checked_sub(y).unwrap_or(u8::MIN)
CheckedSubOrMin(x, y) == IF x - y < 0 THEN 0 ELSE x - y

\* x.checked_add(y).unwrap_or(u8::MIN): an overflowing sum yields u8::MIN
CheckedAddOrMin(x, y) == IF x + y > U8Max THEN 0 ELSE x + y

MulNoSaturation(x, y) == x * y

\* x.checked_mul(y).unwrap_or(u8::MAX)
CheckedMulOrMax(x, y) == IF x * y > U8Max THEN U8Max ELSE x * y

(***************************************************************************)
(* Colormap: to_rgb                                                        *)
(***************************************************************************)
\* (x - x_min) / interval_width * 255., floored; 0/0 is NaN
\* (an Option: None stands for NaN)
XNormFloat(x, x_min, x_max) ==
    LET interval_width == x_max - x_min
    IN  IF interval_width = 0 THEN None
        ELSE Some(((x - x_min) * 255) \div interval_width)

\* `as u8`: NaN casts to 0, anything else saturates to 0..=255
AsU8(v) == IF ~IsSome(v) THEN 0
           ELSE IF v[1] < 0 THEN 0 ELSE IF v[1] > U8Max THEN U8Max ELSE v[1]

XNorm(x, x_min, x_max) == AsU8(XNormFloat(x, x_min, x_max))

RedOf(x_norm) ==
    Min3(255,
         CheckedMulOrMax(CheckedSubOrMin(x_norm, 96), 4),
         255 - CheckedMulOrMax(CheckedSubOrMin(x_norm, 224), 4))

GreenOf(x_norm) ==
    Min3(255,
         CheckedMulOrMax(CheckedSubOrMin(x_norm, 32), 4),
         255 - CheckedMulOrMax(CheckedSubOrMin(x_norm, 160), 4))

BlueOf(x_norm) ==
    Min3(255,
         CheckedMulOrMax(CheckedAddOrMin(x_norm, 127), 4),
         255 - CheckedMulOrMax(CheckedSubOrMin(x_norm, 96), 4))

to_rgb(x, x_min, x_max) ==
    IF x < x_min \/ x > x_max
    THEN None
    ELSE LET x_norm == XNorm(x, x_min, x_max)
         IN  Some(<<RedOf(x_norm), GreenOf(x_norm), BlueOf(x_norm)>>)

(***************************************************************************)
(* ColorSpec: to_rgb on drawn inputs.  The interval 0..255 makes x_norm    *)
(* equal to x, so every normalised value occurs; -90..90 is the interval   *)
(* the raster encoder uses; 7..7 is the empty-width interval.              *)
(***************************************************************************)
ColorIntervals == {<<0, 255>>, <<-90, 90>>, <<7, 7>>, <<-3, 4>>}

ColorInputs ==
    UNION {{<<x, iv[1], iv[2]>> : x \in (iv[1] - 2)..(iv[2] + 2)} :
           iv \in ColorIntervals}

RunIdle ==
    /\ pc = "off" /\ cfg = "absent" /\ params = None /\ err = ""
    /\ cfgReads = 0 /\ atPixelCalls = 0 /\ coords = <<>> /\ task = <<>>
    /\ rays = <<>> /\ rayImage = None /\ format = "unread"
    /\ output = <<>> /\ encoder = "none" /\ file = None /\ creates = 0

ColorIdle == colorIn = <<>> /\ colorOut = None
DatIdle == datIn = <<>> /\ datProbe = None

ColorInit ==
    /\ RunIdle /\ DatIdle
    /\ colorIn \in ColorInputs
    /\ colorOut = None

ApplyToRgb ==
    /\ colorIn # <<>>
    /\ colorOut = None
    /\ colorOut' = Some(to_rgb(colorIn[1], colorIn[2], colorIn[3]))
    /\ UNCHANGED <<colorIn, runVars, datVars>>

ColorNext == ApplyToRgb

ColorSpec == ColorInit /\ [][ColorNext]_vars

(***************************************************************************)
(* DatSpec: the flat index of write_dat, `row * cols + col`, in u16.       *)
(* Rust checks the arithmetic in a build with overflow checks (the debug   *)
(* profile) and panics; without them (the release profile) it wraps.       *)
(***************************************************************************)
DatIndex(row, col, cols, overflowChecks) ==
    LET product == row * cols
        sum == (product % U16Modulus) + col
    IN  IF product >= U16Modulus \/ sum >= U16Modulus
        THEN IF overflowChecks
             THEN <<"panic">>
             ELSE <<"index", sum % U16Modulus>>
        ELSE <<"index", sum>>

\* Sensor sizes a Params can hold (u16), the default 1024 x 1224 among them
\* (the products stay below 2^31, the range of TLC's integers).
DatSizes == {1, 2, 54, 256, 1024, 1224, 40000}
\* Iterations of the loops that are looked at.
DatPoints == {0, 1, 53, 54, 255, 664, 1023, 1223, 39999}

\* Iteration (row, col) of `for row in 0..rows { for col in 0..cols {` runs
\* when no earlier iteration panicked; the flat position grows by one per
\* iteration, so that is decided by the iteration just before.
DatReached(row, col, rows, cols, overflowChecks) ==
    /\ row < rows /\ col < cols
    /\ overflowChecks =>
          \/ row = 0 /\ col = 0
          \/ row * cols + col - 1 < U16Modulus

DatInit ==
    /\ RunIdle /\ ColorIdle
    /\ datIn \in {<<rows, cols, oc>> : rows \in DatSizes, cols \in DatSizes,
                                       oc \in BOOLEAN}
    /\ datProbe = None

ProbeIndex ==
    /\ datIn # <<>>
    /\ datProbe = None
    /\ \E row \in DatPoints, col \in DatPoints :
          /\ DatReached(row, col, datIn[1], datIn[2], datIn[3])
          /\ datProbe' =
                Some(<<row, col, DatIndex(row, col, datIn[2], datIn[3])>>)
    /\ UNCHANGED <<datIn, runVars, colorVars>>

DatNext == ProbeIndex

DatSpec == DatInit /\ [][DatNext]_vars

(***************************************************************************)
(* Spec: one run of `run`.                                                 *)
(***************************************************************************)
RunPcs == {"off", "start", "simulate", "coords", "wgs84", "trace", "dispatch",
           "encode", "done", "failed", "aborted"}

\* `failed`: run returned Err(err).  `aborted`: a panic with message err.
ErrConfigRead == "config read error"
ErrConfigParse == "config parse error"
ErrGeodetic == "latitude between -90 and 90 degrees"
ErrUnsupported == "unsupported output format"
ErrOutputWrite == "output write error"
PanicFocal == "positive focal length"
PanicAtPixel == "at_pixel unwrap"
PanicTrace == "coord on sensor plane"
PanicCollision == "no ray hits the same pixel"
PanicAop == "aop in between -90 and 90"
PanicOverflow == "attempt to multiply or add with overflow"

\* Params::default(): the fields the run reads (latitude in 1e-4 degree).
DefaultParams ==
    [image_rows |-> 1024, image_cols |-> 1224, focal_length_mm |-> 8,
     lat_e4 |-> 442187]

\* Values a configuration file can give.
SensorDims ==
    {d \in (1..MaxPixels) \X (1..MaxPixels) : d[1] * d[2] <= MaxPixels}
LatSamples == {-900001, -900000, 900000, 910000}
FocalSamples == {0, 8}
ConfigParams ==
    {[image_rows |-> d[1], image_cols |-> d[2], focal_length_mm |-> f,
      lat_e4 |-> l] : d \in SensorDims, f \in FocalSamples, l \in LatSamples}

\* Values of the angle of polarisation, in degrees, the Sky Model returns.
AopSamples == {-90, 0, 90}

Formats == {"png", "dat"}
\* --output paths, as sequences of characters.
OutputPaths ==
    { <<"o", ".", "p", "n", "g">>, <<"o", ".", "d", "a", "t">>,
      <<"o", ".", "b", "i", "n">>, <<"o", "u", "t">>,
      <<".", "p", "n", "g">>, <<"o", ".", "P", "N", "G">> }

\* Lens::from_focal_length(..).expect("positive focal length")
LensOk(focal_length_mm) == focal_length_mm > 0

Wgs84AcceptsAnyLatitude(lat_e4) == TRUE

\* Params::wgs84: the builder takes a latitude between -90 and 90 degrees
Wgs84Ok(lat_e4) == -900000 <= lat_e4 /\ lat_e4 <= 900000

PixelListFirstColumn(rows, cols) ==
    [k \in 1..(rows * cols) |-> <<(k - 1) \div cols, 0>>]

\* (0..rows).flat_map(|row| (0..cols).map(move |col| (row, col)))
PixelList(rows, cols) ==
    [k \in 1..(rows * cols) |-> <<(k - 1) \div cols, (k - 1) % cols>>]

\* ImageSensor::at_pixel: the point of the sensor plane under pixel
\* (row, col), as <<x, y>> in half pixels from the optical centre.
at_pixel(row, col, rows, cols) ==
    <<2 * col - (cols - 1), 2 * row - (rows - 1)>>

\* The pixel <<row, col>> a point of the sensor plane lies in.
pixel_of(coord, rows, cols) ==
    <<(coord[2] + (rows - 1)) \div 2, (coord[1] + (cols - 1)) \div 2>>

\* Ray::new(*coord, aop, Dop::new(0.0))
Ray(coord, aop) == [coord |-> coord, aop |-> aop, dop |-> 0]

TraceOutcomes ==
    {<<"panic">>, <<"none">>} \cup {<<"aop", a>> : a \in AopSamples}

TraceCoordByArrival(i) == coords[Len(rays) + 1]

\* the `coord` the closure of filter_map is given for item i of coords
TraceCoord(i) == coords[i]

TraceResultDefaultAop(coord, res) ==
    IF res[1] = "aop" THEN <<Ray(coord, res[2])>> ELSE <<Ray(coord, 0)>>

\* what the closure of filter_map adds to the collection: `?` on the Sky
\* Model's None yields nothing, an AoP yields one Ray
TraceResult(coord, res) ==
    IF res[1] = "aop" THEN <<Ray(coord, res[2])>> ELSE <<>>

\* RayImage::from_rays_with_sensor: fails when two rays lie in one pixel,
\* else the row-major grid with the cells no ray lies in absent.
HasCollision(rs, rows, cols) ==
    \E i, j \in 1..Len(rs) :
        /\ i # j
        /\ pixel_of(rs[i].coord, rows, cols) = pixel_of(rs[j].coord, rows, cols)

from_rays_with_sensor(rs, rows, cols) ==
    [k \in 1..(rows * cols) |->
        LET px == <<(k - 1) \div cols, (k - 1) % cols>>
            hits == {i \in 1..Len(rs) : pixel_of(rs[i].coord, rows, cols) = px}
        IN  IF hits = {} THEN None ELSE Some(rs[CHOOSE i \in hits : TRUE])]

RunInit ==
    /\ ColorIdle /\ DatIdle
    /\ pc = "start"
    /\ cfg \in {"absent", "ok", "missing", "malformed"}
    /\ params = None /\ err = ""
    /\ cfgReads = 0 /\ atPixelCalls = 0 /\ coords = <<>> /\ task = <<>>
    /\ rays = <<>> /\ rayImage = None
    /\ format = "unread" /\ output = <<>>
    /\ encoder = "none" /\ file = None /\ creates = 0

Rows == params[1].image_rows
Cols == params[1].image_cols

Fail(e) == pc' = "failed" /\ err' = e
Abort(e) == pc' = "aborted" /\ err' = e

\* run: `None => Params::default()`
UseDefaultParams ==
    /\ pc = "start" /\ cfg = "absent"
    /\ params' = Some(DefaultParams)
    /\ pc' = "simulate"
    /\ UNCHANGED <<colorVars, datVars, cfg, err, cfgReads, atPixelCalls,
                   coords, task, rays,
                   rayImage, format, output, encoder, file, creates>>

\* run: `Some(path) => parse_params(&path)?`
ParseParams ==
    /\ pc = "start" /\ cfg # "absent"
    /\ cfgReads' = cfgReads + 1
    /\ IF cfg = "missing" THEN Fail(ErrConfigRead) /\ UNCHANGED params
       ELSE IF cfg = "malformed" THEN Fail(ErrConfigParse) /\ UNCHANGED params
       ELSE /\ \E p \in ConfigParams : params' = Some(p)
            /\ pc' = "simulate" /\ UNCHANGED err
    /\ UNCHANGED <<colorVars, datVars, cfg, atPixelCalls, coords, task, rays,
                   rayImage, format,
                   output, encoder, file, creates>>

\* simulate: the lens and the image sensor.  Sensors of more than
\* MaxPixels pixels are not followed further.
SimulateSetup ==
    /\ pc = "simulate"
    /\ Rows * Cols <= MaxPixels
    /\ IF LensOk(params[1].focal_length_mm)
       THEN pc' = "coords" /\ UNCHANGED err
       ELSE Abort(PanicFocal)
    /\ UNCHANGED <<colorVars, datVars, cfg, params, cfgReads, atPixelCalls,
                   coords, task, rays,
                   rayImage, format, output, encoder, file, creates>>

\* simulate: `coords`, one at_pixel(row, col).unwrap() per pixel; the
\* Geometry Provider may reject a pixel, which panics at that call.
BuildCoords ==
    /\ pc = "coords"
    /\ LET pl == PixelList(Rows, Cols)
       IN  \/ /\ coords' = [k \in 1..Len(pl) |->
                              at_pixel(pl[k][1], pl[k][2], Rows, Cols)]
              /\ atPixelCalls' = Len(pl)
              /\ pc' = "wgs84" /\ UNCHANGED err
           \/ /\ \E k \in 1..Len(pl) : atPixelCalls' = k
              /\ Abort(PanicAtPixel)
              /\ UNCHANGED coords
    /\ UNCHANGED <<colorVars, datVars, cfg, params, cfgReads, task, rays,
                   rayImage, format,
                   output, encoder, file, creates>>

\* simulate: `params.wgs84()?`, then the sky model and the camera
ValidateWgs84 ==
    /\ pc = "wgs84"
    /\ IF Wgs84Ok(params[1].lat_e4)
       THEN /\ pc' = "trace" /\ UNCHANGED err
            /\ task' = [i \in 1..Len(coords) |-> <<"pending">>]
       ELSE Fail(ErrGeodetic) /\ UNCHANGED task
    /\ UNCHANGED <<colorVars, datVars, cfg, params, cfgReads, atPixelCalls,
                   coords, rays,
                   rayImage, format, output, encoder, file, creates>>

\* simulate: one item of coords.par_iter().filter_map(..), run by any
\* worker at any time: trace_from_sensor, then the Sky Model's aop
TraceTask(i) ==
    /\ pc = "trace"
    /\ task[i] = <<"pending">>
    /\ \E res \in TraceOutcomes :
          /\ task' = [task EXCEPT ![i] = res]
          /\ rays' = IF res[1] = "panic" THEN rays
                     ELSE rays \o TraceResult(TraceCoord(i), res)
    /\ UNCHANGED <<colorVars, datVars, pc, cfg, params, err, cfgReads,
                   atPixelCalls, coords,
                   rayImage, format, output, encoder, file, creates>>

\* simulate: a panic of a task is resumed in the caller by the pool
JoinPanic ==
    /\ pc = "trace"
    /\ \E i \in DOMAIN task : task[i] = <<"panic">>
    /\ Abort(PanicTrace)
    /\ UNCHANGED <<colorVars, datVars, cfg, params, cfgReads, atPixelCalls,
                   coords, task, rays,
                   rayImage, format, output, encoder, file, creates>>

CollectedWithoutWaiting == \A i \in DOMAIN task : task[i][1] # "panic"

\* collect() returns once every item of the parallel iterator is done
AllCollected ==
    \A i \in DOMAIN task : task[i][1] \in {"none", "aop"}

\* simulate: after collect(),
\* from_rays_with_sensor(rays, &image_sensor).expect(..)
Assemble ==
    /\ pc = "trace"
    /\ AllCollected
    /\ IF HasCollision(rays, Rows, Cols)
       THEN Abort(PanicCollision) /\ UNCHANGED <<rayImage, rays>>
       ELSE /\ rayImage' = Some(from_rays_with_sensor(rays, Rows, Cols))
            /\ rays' = <<>>
            /\ pc' = "dispatch" /\ UNCHANGED err
    /\ UNCHANGED <<colorVars, datVars, cfg, params, cfgReads, atPixelCalls,
                   coords, task,
                   format, output, encoder, file, creates>>

(***************************************************************************)
(* Output dispatch                                                         *)
(***************************************************************************)
\* Path::extension: what follows the last dot of the file name, unless the
\* name has no dot or its only dot is its first character.
LastDot(path) ==
    LET dots == {i \in 1..Len(path) : path[i] = "."}
    IN  IF dots = {} THEN 0 ELSE CHOOSE i \in dots : \A j \in dots : j <= i

Extension(path) ==
    IF LastDot(path) <= 1 THEN None
    ELSE Some(SubSeq(path, LastDot(path) + 1, Len(path)))

\* the match on the extension inside or_else
InferFormat(path) ==
    IF Extension(path) = Some(<<"p", "n", "g">>) THEN "png"
    ELSE IF Extension(path) = Some(<<"d", "a", "t">>) THEN "dat"
    ELSE "none"

SelectFormatExtensionFirst(fmt, path) ==
    IF InferFormat(path) # "none" THEN InferFormat(path) ELSE fmt

\* format.or_else(|| ..)
SelectFormat(fmt, path) ==
    IF fmt # "none" THEN fmt ELSE InferFormat(path)

\* run: the match on the selected format.  The arguments `format` and
\* `output` are read here for the first time, so they are drawn here.
Dispatch ==
    /\ pc = "dispatch"
    /\ \E fmt \in Formats \cup {"none"}, path \in OutputPaths :
          /\ format' = fmt /\ output' = path
          /\ IF SelectFormat(fmt, path) = "none"
             THEN Fail(ErrUnsupported) /\ UNCHANGED encoder
             ELSE /\ encoder' = SelectFormat(fmt, path)
                  /\ pc' = "encode" /\ UNCHANGED err
    /\ UNCHANGED <<colorVars, datVars, cfg, params, cfgReads, atPixelCalls,
                   coords, task, rays, rayImage, file, creates>>

(***************************************************************************)
(* Raster encoder: write_image                                             *)
(***************************************************************************)
RECURSIVE Flatten(_)
Flatten(ss) == IF ss = <<>> THEN <<>> ELSE Head(ss) \o Flatten(Tail(ss))

PixelBytesBgr(pixel) ==
    IF IsSome(pixel)
    THEN LET c == to_rgb(pixel[1].aop, -90, 90)
         IN  IF IsSome(c) THEN Some(<<c[1][3], c[1][2], c[1][1]>>) ELSE None
    ELSE Some(<<255, 255, 255>>)

\* the closure of flat_map, before `.expect(..)`: None is the failed lookup
PixelBytes(pixel) ==
    IF IsSome(pixel)
    THEN to_rgb(pixel[1].aop, -90, 90)
    ELSE Some(<<255, 255, 255>>)

\* write_image: `aop_image`, the flat_map of the cells in ray_pixels()
\* order; None when a lookup failed (the expect panics)
RasterBuffer(cells) ==
    LET looked == [k \in 1..Len(cells) |-> PixelBytes(cells[k])]
    IN  IF \E k \in 1..Len(cells) : ~IsSome(looked[k])
        THEN None
        ELSE Some(Flatten([k \in 1..Len(cells) |-> looked[k][1]]))

\* write_image: the buffer, then image::save_buffer(path, buf, cols, rows)
WriteImage ==
    /\ pc = "encode" /\ encoder = "png"
    /\ LET aop_image == RasterBuffer(rayImage[1])
       IN  IF ~IsSome(aop_image)
           THEN Abort(PanicAop) /\ UNCHANGED <<file, creates>>
           ELSE \/ /\ file' = Some([kind |-> "png", width |-> Cols,
                                    height |-> Rows, data |-> aop_image[1]])
                   /\ creates' = creates + 1
                   /\ pc' = "done" /\ UNCHANGED err
                \/ /\ Fail(ErrOutputWrite)
                   /\ UNCHANGED <<file, creates>>
    /\ UNCHANGED <<colorVars, datVars, cfg, params, cfgReads, atPixelCalls,
                   coords, task, rays, rayImage, format, output, encoder>>

(***************************************************************************)
(* Grid encoder: write_dat                                                 *)
(***************************************************************************)
DigitChars == <<"0", "1", "2", "3", "4", "5", "6", "7", "8", "9">>

RECURSIVE Digits(_)
Digits(n) ==
    IF n < 10 THEN <<DigitChars[n + 1]>>
    ELSE Append(Digits(n \div 10), DigitChars[(n % 10) + 1])

\* Display of an f64 holding an integral value, or NaN (None)
DisplayF64(v) ==
    IF ~IsSome(v) THEN <<"N", "a", "N">>
    ELSE IF v[1] < 0 THEN <<"-">> \o Digits(0 - v[1])
    ELSE Digits(v[1])

\* "{:5} ": right-aligned in at least 5 characters, then one space
FormatToken(v) ==
    LET text == DisplayF64(v)
        pad == IF Len(text) >= 5 THEN <<>>
               ELSE [i \in 1..(5 - Len(text)) |-> " "]
    IN  pad \o text \o <<" ">>

\* the f64 a cell maps to: its AoP in degrees, NaN (None) when absent
CellValue(pixel) == IF IsSome(pixel) THEN Some(pixel[1].aop) ELSE None

\* write_dat: iterations it, it + 1, .. of the two loops, in order, up to
\* the first whose index arithmetic panics
RECURSIVE DatLoop(_, _, _, _, _)
DatLoop(aop_image, rows, cols, overflowChecks, it) ==
    IF it = rows * cols
    THEN [text |-> <<>>, panicked |-> FALSE]
    ELSE LET row == it \div cols
             col == it % cols
             i == DatIndex(row, col, cols, overflowChecks)
         IN  IF i[1] = "panic"
             THEN [text |-> <<>>, panicked |-> TRUE]
             ELSE LET rest == DatLoop(aop_image, rows, cols,
                                      overflowChecks, it + 1)
                  IN  [text |-> FormatToken(aop_image[i[2] + 1])
                                \o (IF col = cols - 1 THEN <<"\n">> ELSE <<>>)
                                \o rest.text,
                       panicked |-> rest.panicked]

\* write_dat: what is written for the cells in ray_pixels() order
DatText(cells, rows, cols, overflowChecks) ==
    DatLoop([k \in 1..Len(cells) |-> CellValue(cells[k])], rows, cols,
            overflowChecks, 0)

\* write_dat: File::create, then the two loops
WriteDat ==
    /\ pc = "encode" /\ encoder = "dat"
    /\ \/ /\ Fail(ErrOutputWrite)
          /\ UNCHANGED <<file, creates>>
       \/ \E overflowChecks \in BOOLEAN :
            LET out == DatText(rayImage[1], Rows, Cols, overflowChecks)
            IN  /\ creates' = creates + 1
                /\ file' = Some([kind |-> "dat", text |-> out.text])
                /\ IF out.panicked
                   THEN Abort(PanicOverflow)
                   ELSE pc' = "done" /\ UNCHANGED err
    /\ UNCHANGED <<colorVars, datVars, cfg, params, cfgReads, atPixelCalls,
                   coords, task, rays, rayImage, format, output, encoder>>

Next ==
    \/ UseDefaultParams
    \/ ParseParams
    \/ SimulateSetup
    \/ BuildCoords
    \/ ValidateWgs84
    \/ \E i \in DOMAIN task : TraceTask(i)
    \/ JoinPanic
    \/ Assemble
    \/ Dispatch
    \/ WriteImage
    \/ WriteDat

Spec == RunInit /\ [][Next]_vars

(***************************************************************************)
(* Properties                                                              *)
(***************************************************************************)
Terminal == pc \in {"done", "failed", "aborted"}

\* items of coords whose closure has run (trace_from_sensor was called)
TraceCalls == Cardinality({i \in DOMAIN task : task[i] # <<"pending">>})

\* items for which the Sky Model was queried
SkyQueries == Cardinality({i \in DOMAIN task : task[i][1] \in {"none", "aop"}})

LatOutOfRange ==
    /\ IsSome(params)
    /\ (params[1].lat_e4 < -900000 \/ params[1].lat_e4 > 900000)

ExtPng == Some(<<"p", "n", "g">>)
ExtDat == Some(<<"d", "a", "t">>)

\* C1: once the dispatch has read its arguments, an explicit format
\* selector decides the encoder whatever the extension; with no selector
\* the extension png selects the raster encoder and dat the grid encoder;
\* with no selector and any other or no extension the run fails with the
\* unsupported-format error, no encoder is invoked and no file is made.
C1_OutputDispatch ==
    format # "unread" =>
        /\ format = "png" => encoder = "png"
        /\ format = "dat" => encoder = "dat"
        /\ (format = "none" /\ Extension(output) = ExtPng) => encoder = "png"
        /\ (format = "none" /\ Extension(output) = ExtDat) => encoder = "dat"
        /\ (format = "none" /\ Extension(output) \notin {ExtPng, ExtDat}) =>
              /\ encoder = "none"
              /\ pc = "failed" /\ err = ErrUnsupported
              /\ creates = 0 /\ file = None
        /\ IsSome(file) => file[1].kind = encoder

\* an explicit selector against the extension, and out.bin with none
C1_Witness ==
    \/ /\ format = "dat" /\ output = <<"o", ".", "p", "n", "g">>
       /\ pc = "done" /\ file[1].kind = "dat"
    \/ /\ format = "none" /\ output = <<"o", ".", "b", "i", "n">>
       /\ pc = "failed" /\ err = ErrUnsupported

\* C2 (as stated): with a latitude outside [-90, 90] (and a lens that can
\* be built) no Geometry Provider call - at_pixel or trace_from_sensor -
\* and no Sky Model query is ever made, and a run that ended ended with the
\* geodetic validation error.
C2_NoGeometryCallBeforeValidation ==
    (LatOutOfRange /\ LensOk(params[1].focal_length_mm)) =>
        /\ atPixelCalls = 0
        /\ TraceCalls = 0 /\ SkyQueries = 0
        /\ Terminal => (pc = "failed" /\ err = ErrGeodetic)

\* C2 (amended): with a latitude outside [-90, 90] the parallel trace is
\* never entered: no trace_from_sensor call, no Sky Model query, no ray, no
\* image and no output file; the at_pixel lookups of all rows * cols pixels
\* are made before the validation, which then fails the run with the
\* geodetic error; the run ends otherwise only by the panic of the lens
\* construction or of an at_pixel lookup, both of which come first.
C2_NoTraceBeforeValidation ==
    LatOutOfRange =>
        /\ pc \notin {"trace", "dispatch", "encode", "done"}
        /\ TraceCalls = 0 /\ SkyQueries = 0
        /\ rays = <<>> /\ rayImage = None
        /\ creates = 0 /\ file = None
        /\ pc = "failed" =>
              (err = ErrGeodetic /\ atPixelCalls = Rows * Cols)
        /\ pc = "aborted" => err \in {PanicFocal, PanicAtPixel}
        /\ (pc = "aborted" /\ err = PanicFocal) => atPixelCalls = 0

\* latitude 91 degrees: the validation failed, after the at_pixel lookups
C2_Witness ==
    /\ IsSome(params) /\ params[1].lat_e4 = 910000
    /\ pc = "failed" /\ err = ErrGeodetic
    /\ atPixelCalls = 4

\* C3: the assembled RayImage has rows * cols cells; the cell of pixel
\* (row, col) holds a Ray exactly when the Sky Model returned an AoP for the
\* item of that pixel; that Ray lies in its own pixel and carries the AoP
\* returned; a pixel with no observation is an absent cell, and the run
\* has not failed.
C3_RayImageCells ==
    IsSome(rayImage) =>
        /\ Len(rayImage[1]) = Rows * Cols
        /\ pc \in {"dispatch", "encode"} => err = ""
        /\ \A row \in 0..(Rows - 1), col \in 0..(Cols - 1) :
              LET cell == rayImage[1][row * Cols + col + 1]
                  i == CHOOSE k \in DOMAIN coords :
                          coords[k] = at_pixel(row, col, Rows, Cols)
              IN  /\ IsSome(cell) <=> task[i][1] = "aop"
                  /\ task[i][1] = "none" => cell = None
                  /\ IsSome(cell) =>
                        /\ pixel_of(cell[1].coord, Rows, Cols) = <<row, col>>
                        /\ cell[1].aop = task[i][2]
                        /\ cell[1].dop = 0

\* a 2 x 2 sensor: AoP 0 for three pixels, no observation for pixel (1, 1)
C3_Witness ==
    /\ IsSome(rayImage) /\ Rows = 2 /\ Cols = 2
    /\ \A k \in 1..3 : IsSome(rayImage[1][k]) /\ rayImage[1][k][1].aop = 0
    /\ rayImage[1][4] = None
    /\ task[4] = <<"none">>

\* the documented colormap: satAdd saturates at 255
SatSub(x, y) == IF x < y THEN 0 ELSE x - y
SatAdd(x, y) == IF x + y > 255 THEN 255 ELSE x + y
SatMul4(x) == IF 4 * x > 255 THEN 255 ELSE 4 * x
DocumentedColor(x_norm) ==
    <<Min3(255, SatMul4(SatSub(x_norm, 96)),
                255 - SatMul4(SatSub(x_norm, 224))),
      Min3(255, SatMul4(SatSub(x_norm, 32)),
                255 - SatMul4(SatSub(x_norm, 160))),
      Min3(255, SatMul4(SatAdd(x_norm, 127)),
                255 - SatMul4(SatSub(x_norm, 96)))>>

\* C4: for every normalised value x_norm in 0..255 to_rgb returns
\* R = min(255, satSub(x_norm, 96) * 4, 255 - satSub(x_norm, 224) * 4),
\* G = min(255, satSub(x_norm, 32) * 4, 255 - satSub(x_norm, 160) * 4),
\* B = min(255, satAdd(x_norm, 127) * 4, 255 - satSub(x_norm, 96) * 4),
\* with satSub saturating at 0, satAdd at 255 and the product at 255.
C4_ChannelFormulas ==
    (IsSome(colorOut) /\ IsSome(colorOut[1])) =>
        colorOut[1][1] =
            DocumentedColor(XNorm(colorIn[1], colorIn[2], colorIn[3]))

\* C5: for every sensor size and every iteration (row, col) of write_dat
\* the flat index computed is row * cols + col: the u16 arithmetic neither
\* panics nor wraps.
C5_FlatIndexExact ==
    IsSome(datProbe) =>
        datProbe[1][3] =
            <<"index", datProbe[1][1] * datIn[2] + datProbe[1][2]>>

\* C6: the raster encoder writes rows * cols * 3 bytes, cols wide and rows
\* high; the three bytes of cell k are 255, 255, 255 when the cell is
\* absent and to_rgb(AoP, -90, 90) when it holds a Ray; the lookup never
\* fails.
C6_RasterEncoding ==
    /\ err # PanicAop
    /\ (IsSome(file) /\ file[1].kind = "png") =>
          /\ file[1].width = Cols /\ file[1].height = Rows
          /\ Len(file[1].data) = Rows * Cols * 3
          /\ \A k \in 1..(Rows * Cols), j \in 1..3 :
                file[1].data[3 * (k - 1) + j] =
                    IF IsSome(rayImage[1][k])
                    THEN to_rgb(rayImage[1][k][1].aop, -90, 90)[1][j]
                    ELSE 255

\* a raster written from an image with an absent cell and cells at both
\* ends of the AoP interval
C6_Witness ==
    /\ pc = "done" /\ encoder = "png" /\ IsSome(file)
    /\ \E k \in 1..Len(rayImage[1]) : rayImage[1][k] = None
    /\ \E k \in 1..Len(rayImage[1]) :
          IsSome(rayImage[1][k]) /\ rayImage[1][k][1].aop = 90
    /\ \E k \in 1..Len(rayImage[1]) :
          IsSome(rayImage[1][k]) /\ rayImage[1][k][1].aop = -90

\* C7: for x_min <= x <= x_max to_rgb returns a colour whose three channels
\* lie in 0..255, the floored normalised value lying in 0..255 too (when
\* the interval is not empty); for x < x_min or x > x_max it returns None.
C7_ColormapDomain ==
    IsSome(colorOut) =>
        LET x == colorIn[1]
            x_min == colorIn[2]
            x_max == colorIn[3]
        IN  /\ (x_min <= x /\ x <= x_max) =>
                  /\ IsSome(colorOut[1])
                  /\ \A j \in 1..3 : colorOut[1][1][j] \in 0..255
                  /\ x_min < x_max =>
                        XNormFloat(x, x_min, x_max)[1] \in 0..255
            /\ (x < x_min \/ x > x_max) => colorOut[1] = None

\* to_rgb applied at x = x_max of the encoder's interval
C7_Witness ==
    /\ colorIn = <<90, -90, 90>>
    /\ IsSome(colorOut) /\ IsSome(colorOut[1])

\* the rays a sequential pass over coords yields for the same answers
SequentialRays ==
    Flatten([i \in DOMAIN task |->
                IF task[i][1] = "aop"
                THEN <<Ray(coords[i], task[i][2])>> ELSE <<>>])

SequentialImage == from_rays_with_sensor(SequentialRays, Rows, Cols)

\* C8: whatever the order in which the per-pixel tasks complete, each task
\* contributes at most one Ray, that of its own coordinate; the image
\* assembled is the one a sequential pass yields, and so is what either
\* encoder writes.
C8_OrderIndependence ==
    /\ pc = "trace" =>
          \A i \in DOMAIN task :
              Cardinality({j \in 1..Len(rays) : rays[j].coord = coords[i]})
                  = IF task[i][1] = "aop" THEN 1 ELSE 0
    /\ (pc = "trace" /\ AllCollected) =>
          from_rays_with_sensor(rays, Rows, Cols) = SequentialImage
    /\ IsSome(rayImage) => rayImage[1] = SequentialImage
    /\ (pc = "done" /\ encoder = "png") =>
          file[1].data = RasterBuffer(SequentialImage)[1]
    /\ (pc = "done" /\ encoder = "dat") =>
          file[1].text = DatText(SequentialImage, Rows, Cols, TRUE).text

\* every task is done and the rays were collected in another order than
\* that of the pixels
C8_Witness ==
    /\ pc = "trace" /\ AllCollected
    /\ Len(rays) >= 3
    /\ rays # SequentialRays

PixelWorkStarted == atPixelCalls > 0 \/ TraceCalls > 0

FailedBeforeEncoding ==
    \/ pc = "failed" /\ err \in {ErrConfigRead, ErrConfigParse, ErrGeodetic,
                                 ErrUnsupported}
    \/ pc = "aborted" /\ err \in {PanicFocal, PanicAtPixel, PanicTrace,
                                  PanicCollision}

\* C9: the configuration file, when one is given, has been read (once)
\* before any per-pixel work; the output file is created only once every
\* task of the parallel phase is done and the RayImage is assembled; a run
\* that failed before encoding has created no output file, and a run that
\* succeeded has created it exactly once.
C9_PhaseOrdering ==
    /\ cfgReads <= 1 /\ creates <= 1
    /\ PixelWorkStarted =>
          /\ IsSome(params)
          /\ cfgReads = IF cfg = "absent" THEN 0 ELSE 1
    /\ (creates > 0 \/ IsSome(file)) =>
          /\ AllCollected /\ TraceCalls = Rows * Cols
          /\ IsSome(rayImage)
          /\ pc \in {"done", "aborted"}
    /\ FailedBeforeEncoding => (creates = 0 /\ file = None)
    /\ pc = "done" => (creates = 1 /\ IsSome(file))

\* a successful run from a configuration file, on a 2 x 2 sensor
C9_Witness ==
    /\ pc = "done" /\ cfg = "ok" /\ cfgReads = 1 /\ creates = 1
    /\ TraceCalls = 4

\* C10: coords holds the coordinate of every pixel of 0..rows x 0..cols
\* exactly once, no two collected Rays lie in the same pixel, and the run
\* never aborts on the assembly collision.
C10_NoCollision ==
    /\ err # PanicCollision
    /\ IsSome(params) =>
          /\ ~HasCollision(rays, Rows, Cols)
          /\ coords # <<>> =>
                /\ Len(coords) = Rows * Cols
                /\ \A row \in 0..(Rows - 1), col \in 0..(Cols - 1) :
                      Cardinality({i \in DOMAIN coords :
                          coords[i] = at_pixel(row, col, Rows, Cols)}) = 1

\* every pixel of a 2 x 2 sensor produced a Ray and the image was assembled
C10_Witness ==
    /\ pc = "dispatch" /\ Rows = 2 /\ Cols = 2
    /\ \A k \in 1..4 : IsSome(rayImage[1][k])

====
